---- MODULE Spec2Model ----
(***************************************************************************)
(* The worker of src/userScript.js: the process.on('message') handler, the *)
(* commit loop of validateCommits, the pull request lookup of              *)
(* getPullRequestForCommit and the rules of validatePullRequestCompliance. *)
(*                                                                         *)
(* JavaScript values are written as strings: undefined is "undefined",     *)
(* null is "null", true and false are "true" and "false", a number is its  *)
(* decimal text ("10"), and every other string is itself.  None of the     *)
(* strings the model uses as data ("acme", "Fix", ...) collides with the   *)
(* encoded ones.                                                           *)
(*                                                                         *)
(* Each invocation of the handler is one entry of tasks, and pc is the     *)
(* await it is suspended at: "await81" (axios.get in flight), "await49"    *)
(* (getPullRequestForCommit has returned), "await53" (the compliance check *)
(* has returned), "await18" (validateCommits has returned).  There is one  *)
(* action per resumption.  The resumptions of different invocations, and   *)
(* the deliveries of messages that arrive together, interleave freely.     *)
(*                                                                         *)
(* worker is the process: "running"; "rejected" once a handler's promise   *)
(* was rejected with nobody to handle it (line 5 throws on a null message, *)
(* outside the try); "exited" once Node has ended the process for that,    *)
(* which it does when no promise job is left to run.                       *)
(***************************************************************************)
EXTENDS Naturals, Sequences, FiniteSets

VARIABLES
    tasks,    \* one record per received message, in order of receipt
    results,  \* results[a]: the array `results` of validateCommits (line 46)
    worker,   \* the process: "running", "rejected" or "exited"
    probe     \* one call of validatePullRequestCompliance: argument, result

vars == <<tasks, results, worker, probe>>

\* How many messages the parent sends in a run: to a worker that is given
\* one task (Spec), and to one whose tasks overlap (ConcSpec).
MaxTasks == 1
MaxConcurrent == 2
\* How many pull requests a lookup's response lists at most.
MaxPulls == 2

----------------------------------------------------------------------------
(* JavaScript values *)

\* ToBoolean on the encoded values: what `!x` (lines 13, 112, 117) negates.
Falsy == {"undefined", "null", "", "false", "0"}
Truthy(v) == v \notin Falsy

Range(s) == {s[j] : j \in 1..Len(s)}

----------------------------------------------------------------------------
(* The inbound message *)

\* const { baseRef, headRef, owner, repo, githubToken } = inputs   (line 10)
RequiredInputs == {"baseRef", "headRef", "owner", "repo", "githubToken"}

FieldValues == {"undefined", "null", "", "acme"}

ValidFields == [f \in RequiredInputs |-> "acme"]

\* message.inputs: an object with the five fields (a field that is absent
\* reads as undefined), or no object at all (inputs absent, or null).
InputsOf(kind, fields) == [kind |-> kind, fields |-> fields]

\* The objects tried: every field set, one field falsy in each of the three
\* ways, and two fields falsy.
FieldChoices ==
    {ValidFields}
    \cup {[ValidFields EXCEPT ![f] = v] :
              f \in RequiredInputs, v \in FieldValues \ {"acme"}}
    \cup {[ValidFields EXCEPT ![f] = "undefined", ![g] = ""] :
              f \in RequiredInputs, g \in RequiredInputs}

Inputs ==
    {InputsOf("object", fs) : fs \in FieldChoices}
    \cup {InputsOf("undefined", ValidFields), InputsOf("null", ValidFields)}

OtherActions == {"undefined", "ping", "EXECUTE", "result"}

\* The message null (child.send(null) delivers it) has no properties.
NullMessage ==
    [kind |-> "null", action |-> "undefined",
     inputs |-> InputsOf("undefined", ValidFields)]

Messages ==
    {[kind |-> "object", action |-> "execute", inputs |-> i] : i \in Inputs}
    \cup {[kind |-> "object", action |-> a,
           inputs |-> InputsOf("object", ValidFields)] : a \in OtherActions}
    \cup {NullMessage}

\* Reading message.action of null throws a TypeError (line 5, outside try).
ReadActionThrows(message) == message.kind = "null"

\* if (message.action === 'execute')   (line 5)
IsExecuteAlways(action) == TRUE
IsExecute(action) == action = "execute"

\* Destructuring undefined or null throws a TypeError (line 10, inside try).
DestructureThrows(inputs) == inputs.kind \in {"undefined", "null"}

DestructureError(inputs) ==
    IF inputs.kind = "null"
    THEN "Cannot destructure property 'baseRef' of 'inputs' as it is null."
    ELSE "Cannot destructure property 'baseRef' of 'inputs' as it is undefined."

\* if (!baseRef || !headRef || !owner || !repo || !githubToken)   (line 13)
MissingRequiredNoToken(inputs) ==
    \E f \in RequiredInputs \ {"githubToken"} : ~Truthy(inputs.fields[f])
MissingRequired(inputs) ==
    \E f \in RequiredInputs : ~Truthy(inputs.fields[f])

\* throw new Error('Missing required inputs: ...')   (line 14)
MissingInputsError ==
    "Missing required inputs: baseRef, headRef, owner, repo, or githubToken"

----------------------------------------------------------------------------
(* Pull requests and lookup responses *)

\* What reading number, title, body, state, merged of a value gives.
PullRequests ==
    [kind : {"object"}, number : {"10", "11", "12"},
     title : {"undefined", "null", "", "Fix"},
     body : {"undefined", "null", "", "Details"},
     state : {"undefined", "open", "closed"},
     merged : {"undefined", "false", "true"}]

NoFields(kind) ==
    [kind |-> kind, number |-> "undefined", title |-> "undefined",
     body |-> "undefined", state |-> "undefined", merged |-> "undefined"]

\* null, and a one-character string (an element of a response body that is
\* text): every property read of the latter is undefined.
NullPr == NoFields("null")
CharPr == NoFields("string")

\* if (pr)   (line 51): an object and a non-empty string are truthy.
TruthyPr(pr) == pr.kind # "null"

Pull(number, state, merged, title, body) ==
    [kind |-> "object", number |-> number, title |-> title, body |-> body,
     state |-> state, merged |-> merged]

\* The pull requests the lookups answer with: one that passes, one that is
\* still open, one that is merged with an empty title.
Pulls ==
    {Pull("10", "closed", "true", "Fix", "Details"),
     Pull("11", "open", "false", "Fix", "Details"),
     Pull("12", "closed", "true", "", "Details")}

SeqsUpTo(S, n) == UNION {[1..m -> S] : m \in 0..n}

\* What axios.get (line 81) ends with:
\*   reject: the promise rejects (network error, 401/403, any non-2xx status);
\*   array:  response.data is an array of pull requests;
\*   null:   response.data is null (an empty body);
\*   object: response.data is an object that is no array ({message: ...});
\*   string: response.data is text (a body that is not JSON), data its
\*           characters.
Responses ==
    {[kind |-> "array", data |-> s] : s \in SeqsUpTo(Pulls, MaxPulls)}
    \cup {[kind |-> k, data |-> <<>>] : k \in {"reject", "null", "object"}}
    \cup {[kind |-> "string", data |-> s] : s \in {<<>>, <<CharPr>>}}

\* The few of them the overlapping tasks are answered with: a failure, and
\* one pull request, #10 or #11.
FewResponses ==
    {r \in Responses :
        \/ r.kind = "reject"
        \/ r.kind = "array" /\ Len(r.data) = 1
             /\ r.data[1].number \in {"10", "11"}}

----------------------------------------------------------------------------
(* getPullRequestForCommit (lines 77-99), from the end of axios.get on *)

\* response.data.length > 0 ? response.data[0] : null, and null from the
\* catch: a rejection, and the TypeError of reading length of null, are both
\* caught at line 95; the length of an object that is no array is undefined,
\* and undefined > 0 is false.
getPullRequestForCommitLast(response) ==
    IF response.kind \in {"array", "string"} /\ Len(response.data) > 0
    THEN response.data[Len(response.data)]
    ELSE NullPr
getPullRequestForCommit(response) ==
    IF response.kind \in {"array", "string"} /\ Len(response.data) > 0
    THEN response.data[1]
    ELSE NullPr

----------------------------------------------------------------------------
(* validatePullRequestCompliance (lines 106-128) *)

\* "raise": reading pr.number of null throws at line 108 and again in the
\* catch block at line 125, so the promise rejects.
validatePullRequestComplianceNoBody(pr) ==
    IF pr.kind = "null" THEN "raise"
    ELSE IF pr.state # "closed" \/ ~Truthy(pr.merged) THEN "false"
    ELSE IF ~Truthy(pr.title) THEN "false"
    ELSE "true"
validatePullRequestCompliance(pr) ==
    IF pr.kind = "null" THEN "raise"
    ELSE IF pr.state # "closed" \/ ~Truthy(pr.merged) THEN "false"
    ELSE IF ~Truthy(pr.title) \/ ~Truthy(pr.body) THEN "false"
    ELSE "true"

----------------------------------------------------------------------------
(* validateCommits (lines 38-67) *)

\* const commits = ['commit1', 'commit2']   (line 43)
commits == <<"commit1", "commit2">>

\* const results = [] (line 46): an array of the invocation's own.
AccumulatorShared(t) == 1
Accumulator(t) == t

\* results.push(...)   (lines 54, 58)
PushFront(array, record) == <<record>> \o array
Push(array, record) == Append(array, record)

\* { commit, prNumber: pr.number, compliance }   (line 54)
RecordFound(commit, pr, compliance) ==
    [commit |-> commit, prNumber |-> pr.number, compliance |-> compliance]

\* { commit, prNumber: null, compliance: false }   (line 58)
RecordNone(commit) ==
    [commit |-> commit, prNumber |-> "null", compliance |-> "false"]

\* The commits (by position) whose GET is issued when the loop is entered,
\* and when the record of commit k has been pushed (line 47).
StartLookupsAll == [j \in 1..Len(commits) |-> j]
StartLookups == IF Len(commits) > 0 THEN <<1>> ELSE <<>>

NextLookups(k) == IF k < Len(commits) THEN <<k + 1>> ELSE <<>>

\* The loop is over once the last commit's record is pushed; an empty list
\* never enters it.
LoopDone(k) == k >= Len(commits)

----------------------------------------------------------------------------
(* The handler (lines 4-27) *)

\* process.send({ action: 'result', data: results })   (line 21)
OnSuccessWithProgress(data) ==
    <<[action |-> "progress", data |-> data],
      [action |-> "result", data |-> data]>>
OnSuccess(data) == <<[action |-> "result", data |-> data]>>

\* process.send({ action: 'error', error: error.message })   (line 24)
OnError(text) == <<[action |-> "error", error |-> text]>>

\* What the claims need to remember of a message and of a response.
LacksInput(inputs) ==
    \/ inputs.kind # "object"
    \/ \E f \in RequiredInputs : inputs.fields[f] \in {"undefined", "null", ""}

\* outcome: "error" (the GET failed: rejection, or no body), "malformed" (the
\* body is no array), "pulls" (an array of pull requests); count: the number
\* of elements of the body; number, compliant: those of the first pull request.
Observe(response) ==
    LET isPulls == response.kind = "array" /\ Len(response.data) > 0
    IN  [outcome |-> CASE response.kind \in {"reject", "null"} -> "error"
                       [] response.kind \in {"object", "string"} -> "malformed"
                       [] OTHER -> "pulls",
         count |-> Len(response.data),
         number |-> IF isPulls THEN response.data[1].number ELSE "undefined",
         compliant |-> IF isPulls
                       THEN validatePullRequestCompliance(response.data[1])
                       ELSE "undefined"]

\* k: the commit (by position) being processed; pr, compliance: the values
\* the awaits of lines 49 and 53 resume with.
Task(action, lacks, pc, lookups, sent) ==
    [action |-> action, lacks |-> lacks, pc |-> pc, k |-> 0,
     pr |-> NullPr, compliance |-> "undefined",
     pending |-> Range(lookups),
     gets |-> [j \in 1..Len(lookups) |-> commits[lookups[j]]],
     log |-> <<>>, checks |-> <<>>, sent |-> sent]

Slots == 1..(MaxTasks + MaxConcurrent)

Init ==
    /\ tasks = <<>>
    /\ results = [a \in Slots |-> <<>>]
    /\ worker = "running"
    /\ probe = [pr |-> NullPr, called |-> FALSE, result |-> "undefined"]

TaskIds == 1..Len(tasks)

\* The awaits that a promise job resumes.
JobQueued(t) == tasks[t].pc \in {"await49", "await53", "await18"}

\* A message arrives: the handler runs up to its first axios.get, or to its
\* process.send when the inputs are rejected, or not at all; on the message
\* null it throws, and its promise is rejected.
Receive(message, limit) ==
    /\ worker # "exited"
    /\ Len(tasks) < limit
    /\ LET t == Len(tasks) + 1
           lacks == LacksInput(message.inputs)
       IN  IF ReadActionThrows(message)
           THEN /\ tasks' = Append(tasks,
                        Task(message.action, FALSE, "threw", <<>>, <<>>))
                /\ worker' = "rejected"
           ELSE /\ worker' = worker
                /\ IF ~IsExecute(message.action)
                   THEN tasks' = Append(tasks,
                            Task(message.action, lacks, "ignored", <<>>, <<>>))
                   ELSE IF DestructureThrows(message.inputs)
                   THEN tasks' = Append(tasks,
                            Task(message.action, lacks, "done", <<>>,
                                 OnError(DestructureError(message.inputs))))
                   ELSE IF MissingRequired(message.inputs)
                   THEN tasks' = Append(tasks,
                            Task(message.action, lacks, "done", <<>>,
                                 OnError(MissingInputsError)))
                   ELSE IF StartLookups = <<>>
                   THEN tasks' = Append(tasks,
                            Task(message.action, lacks, "await18", <<>>, <<>>))
                   ELSE tasks' = Append(tasks,
                            Task(message.action, lacks, "await81",
                                 StartLookups, <<>>))
    /\ UNCHANGED <<results, probe>>

\* The await of line 81 resumes: the GET for commit k of invocation t ended
\* with `response`, and getPullRequestForCommit returns (lines 88-98).
LookupReturns(t, k, response) ==
    /\ worker # "exited"
    /\ t \in TaskIds
    /\ tasks[t].pc = "await81"
    /\ k \in tasks[t].pending
    /\ tasks' = [tasks EXCEPT ![t] =
           [@ EXCEPT !.pc = "await49",
                     !.k = k,
                     !.pr = getPullRequestForCommit(response),
                     !.pending = @ \ {k},
                     !.log = Append(@, Observe(response))]]
    /\ UNCHANGED <<results, worker, probe>>

\* The rest of a loop turn once the record of commit k is pushed: the next
\* GET is issued (lines 47-49, 81), or validateCommits returns (line 62).
Continue(task, k) ==
    LET next == NextLookups(k)
        issued == [j \in 1..Len(next) |-> commits[next[j]]]
    IN  [task EXCEPT !.pc = IF LoopDone(k) THEN "await18" ELSE "await81",
                     !.pr = NullPr,
                     !.compliance = "undefined",
                     !.pending = @ \cup Range(next),
                     !.gets = @ \o issued]

\* The await of line 49 resumes with pr: a commit without pull request gets
\* its record (line 58); for the others the compliance check is called and
\* awaited (line 53).
ResumeLookup(t) ==
    /\ worker # "exited"
    /\ t \in TaskIds
    /\ tasks[t].pc = "await49"
    /\ LET task == tasks[t]
           a == Accumulator(t)
       IN  IF TruthyPr(task.pr)
           THEN /\ tasks' = [tasks EXCEPT ![t] =
                       [task EXCEPT
                           !.pc = "await53",
                           !.compliance = validatePullRequestCompliance(task.pr),
                           !.checks = Append(@, commits[task.k])]]
                /\ UNCHANGED results
           ELSE /\ results' = [results EXCEPT ![a] =
                                   Push(@, RecordNone(commits[task.k]))]
                /\ tasks' = [tasks EXCEPT ![t] = Continue(task, task.k)]
    /\ UNCHANGED <<worker, probe>>

\* The await of line 53 resumes with the check's answer: the record is
\* pushed (line 54).
ResumeCompliance(t) ==
    /\ worker # "exited"
    /\ t \in TaskIds
    /\ tasks[t].pc = "await53"
    /\ LET task == tasks[t]
           a == Accumulator(t)
       IN  /\ results' = [results EXCEPT ![a] =
                  Push(@, RecordFound(commits[task.k], task.pr, task.compliance))]
           /\ tasks' = [tasks EXCEPT ![t] = Continue(task, task.k)]
    /\ UNCHANGED <<worker, probe>>

\* The await of line 18 resumes with the array: the result is sent (line 21).
SendResult(t) ==
    /\ worker # "exited"
    /\ t \in TaskIds
    /\ tasks[t].pc = "await18"
    /\ tasks' = [tasks EXCEPT ![t] =
           [@ EXCEPT !.pc = "done",
                     !.sent = OnSuccess(results[Accumulator(t)])]]
    /\ UNCHANGED <<results, worker, probe>>

\* The unhandled rejection ends the process (exit code 1) once the promise
\* jobs have run; what is suspended in a GET is lost.
Exit ==
    /\ worker = "rejected"
    /\ \A t \in TaskIds : ~JobQueued(t)
    /\ worker' = "exited"
    /\ UNCHANGED <<tasks, results, probe>>

Jobs(limit) ==
    \E t \in 1..limit : ResumeLookup(t) \/ ResumeCompliance(t) \/ SendResult(t)

Next ==
    \/ \E message \in Messages : Receive(message, MaxTasks)
    \/ \E t \in 1..MaxTasks, k \in 1..Len(commits), response \in Responses :
           LookupReturns(t, k, response)
    \/ Jobs(MaxTasks)
    \/ Exit

Spec == Init /\ [][Next]_vars

\* Messages that arrive while earlier tasks are suspended.
ConcNext ==
    \/ \E message \in Messages : Receive(message, MaxConcurrent)
    \/ \E t \in 1..MaxConcurrent, k \in 1..Len(commits),
          response \in FewResponses :
           LookupReturns(t, k, response)
    \/ Jobs(MaxConcurrent)
    \/ Exit

ConcSpec == Init /\ [][ConcNext]_vars

\* Every GET that was issued ends, with a response or with a failure; the
\* promise jobs are run; a process with an unhandled rejection is ended.
FairSpec ==
    /\ ConcSpec
    /\ \A t \in 1..MaxConcurrent :
           /\ WF_vars(\E k \in 1..Len(commits), response \in FewResponses :
                          LookupReturns(t, k, response))
           /\ WF_vars(ResumeLookup(t))
           /\ WF_vars(ResumeCompliance(t))
           /\ WF_vars(SendResult(t))
    /\ WF_vars(Exit)

----------------------------------------------------------------------------
(* validatePullRequestCompliance on its own, on every pull request record *)

ProbeInit ==
    /\ tasks = <<>>
    /\ results = [a \in Slots |-> <<>>]
    /\ worker = "running"
    /\ probe \in [pr : PullRequests, called : {FALSE}, result : {"undefined"}]

CheckCompliance ==
    /\ ~probe.called
    /\ probe' = [probe EXCEPT !.called = TRUE,
                              !.result = validatePullRequestCompliance(probe.pr)]
    /\ UNCHANGED <<tasks, results, worker>>

ProbeNext == CheckCompliance

ProbeSpec == ProbeInit /\ [][ProbeNext]_vars

----------------------------------------------------------------------------
(* The claims *)

Executes(t) == tasks[t].action = "execute" /\ tasks[t].pc # "threw"
Done(t) == tasks[t].pc = "done"
SentResult(t) ==
    Len(tasks[t].sent) = 1 /\ tasks[t].sent[1].action = "result"
SentError(t) ==
    Len(tasks[t].sent) = 1 /\ tasks[t].sent[1].action = "error"

\* C1: an execute message is answered by at most one outbound message, a
\* result or an error; by none while the pipeline runs, and by exactly one
\* once it has finished.
C1_ExactlyOneTerminal ==
    \A t \in TaskIds :
        Executes(t) =>
            /\ Len(tasks[t].sent) <= 1
            /\ Done(t) <=> Len(tasks[t].sent) = 1
            /\ \A j \in 1..Len(tasks[t].sent) :
                   tasks[t].sent[j].action \in {"result", "error"}

\* A task that went through both lookups and sent its result.
C1_Witness ==
    \E t \in TaskIds :
        Executes(t) /\ Done(t) /\ SentResult(t) /\ Len(tasks[t].log) = 2

\* C2: an execute task that lacks one of the five inputs is answered by the
\* error 'Missing required inputs: ...', and no GET is issued for it.
C2_MissingInputRejected ==
    \A t \in TaskIds :
        Executes(t) /\ tasks[t].lacks =>
            /\ tasks[t].sent = OnError(MissingInputsError)
            /\ tasks[t].gets = <<>>

\* C3: the result of a valid task has one record per enumerated commit, the
\* i-th of them for the i-th commit, whatever the lookups answered.
C3_OneRecordPerCommit ==
    \A t \in TaskIds :
        /\ \A i \in 1..Len(results[t]) :
               i <= Len(commits) /\ results[t][i].commit = commits[i]
        /\ Executes(t) /\ ~tasks[t].lacks /\ Done(t) =>
               /\ SentResult(t)
               /\ Len(tasks[t].sent[1].data) = Len(commits)
               /\ \A i \in 1..Len(commits) :
                      tasks[t].sent[1].data[i].commit = commits[i]

\* A result whose first commit's lookup failed and whose second found one.
C3_Witness ==
    \E t \in TaskIds :
        /\ Done(t) /\ SentResult(t) /\ Len(tasks[t].log) = 2
        /\ tasks[t].log[1].outcome = "error"
        /\ tasks[t].log[2].outcome = "pulls" /\ tasks[t].log[2].count > 0
        /\ tasks[t].sent[1].data[2].prNumber = "11"

\* C4: a lookup that fails (rejection, no body, a body that is no array of
\* pull requests) leaves the record of a commit without pull request, and the
\* task goes on to its result.
C4_LookupFailureAbsorbed ==
    \A t \in TaskIds :
        \A i \in 1..Len(tasks[t].log) :
            tasks[t].log[i].outcome \in {"error", "malformed"} =>
                /\ i <= Len(results[t]) =>
                       results[t][i] = RecordNone(commits[i])
                /\ Done(t) => SentResult(t)

\* C5: the checker answers true exactly for a closed, merged pull request
\* with a non-empty title and a non-empty body, false otherwise, and never
\* raises.
C5_ComplianceIff ==
    probe.called =>
        /\ probe.result \in {"true", "false"}
        /\ probe.result = "true" <=>
               /\ probe.pr.state = "closed"
               /\ probe.pr.merged = "true"
               /\ probe.pr.title \notin {"undefined", "null", ""}
               /\ probe.pr.body \notin {"undefined", "null", ""}

\* A closed, merged pull request with a title and an empty body was refused.
C5_Witness ==
    /\ probe.called
    /\ probe.pr.state = "closed" /\ probe.pr.merged = "true"
    /\ probe.pr.title = "Fix" /\ probe.pr.body = ""
    /\ probe.result = "false"

\* C6: a lookup that lists pull requests gives the record the number of the
\* first one and the checker's answer on it; a lookup that lists none gives
\* the record of a commit without pull request, and the checker is not run.
C6_FirstPullDecides ==
    \A t \in TaskIds :
        \A i \in 1..Len(tasks[t].log) :
            tasks[t].log[i].outcome = "pulls" =>
                /\ tasks[t].log[i].count = 0 =>
                       commits[i] \notin Range(tasks[t].checks)
                /\ i <= Len(results[t]) =>
                       IF tasks[t].log[i].count > 0
                       THEN /\ results[t][i].prNumber = tasks[t].log[i].number
                            /\ results[t][i].compliance =
                                   tasks[t].log[i].compliant
                            /\ commits[i] \in Range(tasks[t].checks)
                       ELSE results[t][i] = RecordNone(commits[i])

\* One lookup listed two pull requests, the other none; both records are
\* pushed.
C6_Witness ==
    \E t \in TaskIds :
        /\ Len(tasks[t].log) = 2 /\ Len(results[t]) = 2
        /\ tasks[t].log[1].outcome = "pulls" /\ tasks[t].log[1].count = 2
        /\ results[t][1].prNumber = "10" /\ results[t][1].compliance = "true"
        /\ tasks[t].log[2].outcome = "pulls" /\ tasks[t].log[2].count = 0

\* C7: the GETs of a task are issued one per commit in enumeration order,
\* each after the record of the commit before it was pushed, so that at most
\* one is in flight.
C7_SequentialLookups ==
    \A t \in TaskIds :
        /\ Cardinality(tasks[t].pending) <= 1
        /\ Len(tasks[t].gets) <= Len(commits)
        /\ \A j \in 1..Len(tasks[t].gets) : tasks[t].gets[j] = commits[j]
        /\ Len(tasks[t].gets) =
               Len(results[t])
                   + (IF tasks[t].pc \in {"await81", "await49", "await53"}
                      THEN 1 ELSE 0)
        /\ tasks[t].pending # {} =>
               tasks[t].pc = "await81" /\ tasks[t].pending = {Len(tasks[t].gets)}
        /\ Done(t) /\ SentResult(t) => tasks[t].gets = commits

\* The second GET is in flight, the first commit's record is pushed.
C7_Witness ==
    \E t \in TaskIds :
        /\ tasks[t].pc = "await81" /\ tasks[t].pending = {2}
        /\ tasks[t].gets = commits /\ Len(results[t]) = 1

\* C8: a message whose action is not 'execute' is ignored: nothing is sent
\* for it and no GET is issued.
C8_OtherActionsIgnored ==
    \A t \in TaskIds :
        tasks[t].action # "execute" /\ tasks[t].pc # "threw" =>
            /\ tasks[t].pc = "ignored"
            /\ tasks[t].sent = <<>>
            /\ tasks[t].gets = <<>>
            /\ tasks[t].pending = {}
            /\ results[t] = <<>>

\* A message with the action 'EXECUTE' was received.
C8_Witness == \E t \in TaskIds : tasks[t].action = "EXECUTE"

\* C9: an accepted task is never abandoned: until it has sent its terminal
\* message it is suspended in a lookup or about to be resumed, in a process
\* that lives, and when every lookup ends the terminal message is sent.
C9_AcceptedTaskTerminates ==
    /\ [](\A t \in TaskIds :
              Executes(t) /\ ~Done(t) =>
                  /\ worker # "exited"
                  /\ tasks[t].pending # {} \/ JobQueued(t))
    /\ \A t \in 1..MaxConcurrent :
           (t \in TaskIds /\ Executes(t))
               ~> (t \in TaskIds /\ Done(t) /\ Len(tasks[t].sent) = 1)

\* What the code makes of a response, as a function of what was observed.
RecordOfObservation(commit, obs) ==
    IF obs.count > 0 /\ obs.outcome \in {"pulls", "malformed"}
    THEN [commit |-> commit, prNumber |-> obs.number,
          compliance |-> IF obs.outcome = "pulls"
                         THEN obs.compliant ELSE "false"]
    ELSE RecordNone(commit)

\* C10: tasks that overlap do not interfere: each sends at most one terminal
\* message, and the array of each holds the records of its own commits and
\* its own responses, in order.
C10_TasksDoNotInterfere ==
    \A t \in TaskIds :
        Executes(t) =>
            /\ Len(tasks[t].sent) <= 1
            /\ Done(t) <=> Len(tasks[t].sent) = 1
            /\ Len(results[t]) <= Len(tasks[t].log)
            /\ Len(tasks[t].log) <=
                   Len(results[t]) + (IF JobQueued(t) THEN 1 ELSE 0)
            /\ \A i \in 1..Len(results[t]) :
                   results[t][i] = RecordOfObservation(commits[i], tasks[t].log[i])
            /\ Done(t) /\ ~SentError(t) =>
                   /\ SentResult(t)
                   /\ tasks[t].sent[1].data = results[t]
                   /\ Len(results[t]) = Len(commits)

\* Both tasks have pushed both records, with different ones for the first
\* commit, and the first task has not sent its result yet.
C10_Witness ==
    /\ Len(tasks) >= 2
    /\ tasks[1].pc = "await18" /\ tasks[2].pc \in {"await18", "done"}
    /\ Len(results[1]) = 2 /\ Len(results[2]) = 2
    /\ results[1][1].prNumber = "10" /\ results[2][1].prNumber = "null"

====
